---------------------------- MODULE Spec2Model ----------------------------
(***************************************************************************)
(* Delegated-routing HTTP client of go-libipfs: the pull iterators         *)
(* (JSONIter over a byte stream, SliceIter over a slice), the              *)
(* schema-dispatching readProvidersResponseIter, and the client's          *)
(* FindProviders and ProvideBitswap.                                       *)
(*                                                                         *)
(* Four specifications share the variables:                               *)
(*   SpecIter      a readProvidersResponseIter over an arbitrary reader,   *)
(*                 pulled by a single consumer, with a context that may    *)
(*                 be cancelled at any moment;                             *)
(*   SpecSlice     a SliceIter pulled by several goroutines at once;       *)
(*   SpecSliceSeq  a SliceIter whose calls never overlap;                  *)
(*   SpecClient    a client built by New, whose FindProviders and          *)
(*                 ProvideBitswap are called and whose returned iterator   *)
(*                 is then pulled.                                         *)
(***************************************************************************)
EXTENDS Integers, Sequences, FiniteSets, TLC

\* ------------------------------------------------------------------ bounds

\* Longest wire stream / slice the model enumerates.
MaxLen == 3
\* Most Next() calls made on one iterator.
MaxCalls == 5
\* Goroutines that pull one SliceIter at the same time.
NumGoroutines == 2
\* Longest response body a FindProviders call is answered with.
MaxBody == 2
\* Most results in the response to a provide request.
MaxResults == 2

\* ------------------------------------------------------------------ values

Nil == "nil"
\* context.Canceled, what ctx.Err() returns once the context is cancelled.
Canceled == "context canceled"
\* io.EOF as json.Decoder.Decode returns it at a clean end of stream.
EOF == "EOF"
\* Any other failure of json.Decoder.Decode.
SyntaxError == "invalid character"

\* types.SchemaBitswap, the one known discriminator.
SchemaBitswap == "bitswap/transport"

\* The JSON texts a wire stream is made of. Each is one whitespace-delimited
\* value, except Garbage, which is not JSON at all.
Garbage == "garbage"
Docs == {"bs1", "bs2", "bsbad", "unk", "nosch"}
Tokens == Docs \cup {Garbage}

\* The "Schema" member of a JSON text.
SchemaOf(doc) ==
    CASE doc \in {"bs1", "bs2", "bsbad"} -> SchemaBitswap
      [] doc = "unk" -> "unknown/schema"
      [] OTHER -> ""

\* The zero types.UnknownProviderRecord.
ZeroRecord == [Schema |-> "", Bytes |-> ""]

\* (*UnknownProviderRecord).UnmarshalJSON: the envelope of a JSON text, its
\* discriminator and the raw bytes of the whole value.
UnmarshalEnvelope(doc) == [Schema |-> SchemaOf(doc), Bytes |-> doc]

\* json.Unmarshal(v.Bytes, &prov) for a ReadBitswapProviderRecord: the text
\* "bsbad" carries the bitswap discriminator and a payload of the wrong shape.
UnmarshalBitswap(bytes) ==
    CASE bytes = "bs1" -> [err |-> Nil, prov |-> [Protocol |-> "transport-bitswap", ID |-> "peer1"]]
      [] bytes = "bs2" -> [err |-> Nil, prov |-> [Protocol |-> "transport-bitswap", ID |-> "peer2"]]
      [] OTHER -> [err |-> "json: cannot unmarshal", prov |-> [Protocol |-> "", ID |-> ""]]

\* A nil types.ProviderResponse.
NilResp == [kind |-> "nil"]

RECURSIVE SeqsUpTo(_, _)
\* All sequences over S of length at most n.
SeqsUpTo(S, n) ==
    IF n = 0 THEN {<<>>}
    ELSE LET shorter == SeqsUpTo(S, n - 1)
         IN  shorter \cup {Append(s, x) : s \in {t \in shorter : Len(t) = n - 1}, x \in S}

VARIABLES
    \* --- the reader behind a JSONIter and the iterator itself
    wire,       \* the reader's content: a sequence of Tokens
    offset,     \* how many values the json.Decoder has consumed
    isCloser,   \* whether the Reader implements io.Closer
    closes,     \* how many times Close was called on the Reader
    lateReads,  \* how many reads of the Reader came after its Close
    ctxErr,     \* j.ctx.Err()
    cancelledAt,\* history: where the consumer's Next() call stood, and how many
                \* calls had returned, when the context was cancelled; <<>>
                \* while it is not
    done,       \* j.done
    jpc,        \* where the consumer's Next() call stands: "idle" | "decode"
    jhist,      \* what each JSONIter.Next() call returned, in call order
    phist,      \* what each readProvidersResponseIter.Next() call returned
    \* --- a SliceIter and the goroutines pulling it
    Slice,      \* s.Slice
    i,          \* s.i
    spc,        \* per goroutine, where its Next() call stands:
                \* "idle" | "index" | "incr"
    reg,        \* per goroutine, the s.i its bounds check loaded
    sval,       \* per goroutine, the val and the index it read it at
    scalls,     \* Next() calls begun on the SliceIter
    shist,      \* what each SliceIter.Next() call returned, in return order
    panicked,   \* a goroutine panicked (index out of range, nil dereference)
    \* --- the client (type client) and the one call made on it
    c,          \* the client New returned: baseURL aside, its fields
    call,       \* "none" | "FindProviders" | "ProvideBitswap"
    resp,       \* the response httpClient.Do returned to the call, if any
    provs,      \* FindProviders' result provs, the iterator the consumer
                \* holds: "ndjson" | "slice" | "nil" | "none" (no call yet)
    err,        \* FindProviders' result err
    pbRet,      \* what ProvideBitswap returned: [ttl, err]
    trace,      \* what the call did to its collaborators, in order
    sent,       \* the HTTP requests the call handed to httpClient.Do
    measured    \* the measurements the call recorded

iterVars == <<wire, offset, isCloser, closes, lateReads, ctxErr, cancelledAt, done, jpc,
              jhist, phist>>
sliceVars == <<Slice, i, spc, reg, sval, scalls, shist, panicked>>
clientVars == <<c, call, resp, err, pbRet, trace, sent, measured>>

vars == <<iterVars, sliceVars, clientVars, provs>>

\* ------------------------------------------------- iter/json.go: JSONIter

\* json.Decoder.Decode(&val) at the decoder's position.
Decode(w, off) ==
    IF off >= Len(w) THEN [err |-> EOF, val |-> ZeroRecord, offset |-> off]
    ELSE IF w[off + 1] = Garbage THEN [err |-> SyntaxError, val |-> ZeroRecord, offset |-> off]
    ELSE [err |-> Nil, val |-> UnmarshalEnvelope(w[off + 1]), offset |-> off + 1]

\* fmt.Errorf("json iterator: %w", err)
WrapErr(e) == <<"json iterator", e>>

\* Mutant of close: the reader is closed and done is left as it was.
close_KeepsDone ==
    /\ done' = done
    /\ closes' = IF isCloser THEN closes + 1 ELSE closes

\* JSONIter.close
close ==
    /\ done' = TRUE
    /\ closes' = IF isCloser THEN closes + 1 ELSE closes

\* Mutant of Dispatch: a record of an unknown schema is an error.
Dispatch_UnknownIsError(jr) ==
    IF ~jr.ok THEN [val |-> NilResp, ok |-> FALSE, err |-> Nil]
    ELSE IF jr.err # Nil THEN [val |-> NilResp, ok |-> FALSE, err |-> jr.err]
    ELSE IF jr.val.Schema = SchemaBitswap
         THEN LET u == UnmarshalBitswap(jr.val.Bytes)
              IN  IF u.err # Nil
                  THEN [val |-> NilResp, ok |-> FALSE, err |-> u.err]
                  ELSE [val |-> [kind |-> "bitswap", prov |-> u.prov], ok |-> TRUE, err |-> Nil]
    ELSE [val |-> NilResp, ok |-> FALSE, err |-> "unknown schema"]

\* readProvidersResponseIter.Next after p.iter.Next() returned jr.
Dispatch(jr) ==
    IF ~jr.ok THEN [val |-> NilResp, ok |-> FALSE, err |-> Nil]
    ELSE IF jr.err # Nil THEN [val |-> NilResp, ok |-> FALSE, err |-> jr.err]
    ELSE IF jr.val.Schema = SchemaBitswap
         THEN LET u == UnmarshalBitswap(jr.val.Bytes)
              IN  IF u.err # Nil
                  THEN [val |-> NilResp, ok |-> FALSE, err |-> u.err]
                  ELSE [val |-> [kind |-> "bitswap", prov |-> u.prov], ok |-> TRUE, err |-> Nil]
    ELSE [val |-> [kind |-> "unknown", Schema |-> jr.val.Schema, Bytes |-> jr.val.Bytes],
          ok |-> TRUE, err |-> Nil]

\* The return of JSONIter.Next() to readProvidersResponseIter.Next(), and of
\* that to the consumer.
Return(jr) ==
    /\ jhist' = Append(jhist, jr)
    /\ phist' = Append(phist, Dispatch(jr))
    /\ jpc' = "idle"

\* Mutant of JSONIterNextBegin: no done check.
JSONIterNextBegin_NoDoneCheck ==
    /\ provs = "ndjson"
    /\ err = Nil
    /\ jpc = "idle"
    /\ Len(jhist) < MaxCalls
    /\ IF ctxErr # Nil
       THEN /\ close
            /\ Return([val |-> ZeroRecord, ok |-> TRUE, err |-> ctxErr])
       ELSE /\ jpc' = "decode"
            /\ UNCHANGED <<done, closes, jhist, phist>>
    /\ UNCHANGED <<wire, offset, isCloser, lateReads, ctxErr, cancelledAt>>
    /\ UNCHANGED <<sliceVars, clientVars, provs>>

\* Mutant of JSONIterNextBegin: no cancellation check.
JSONIterNextBegin_NoCtxCheck ==
    /\ provs = "ndjson"
    /\ err = Nil
    /\ jpc = "idle"
    /\ Len(jhist) < MaxCalls
    /\ IF done
       THEN /\ Return([val |-> ZeroRecord, ok |-> FALSE, err |-> Nil])
            /\ UNCHANGED <<done, closes>>
       ELSE /\ jpc' = "decode"
            /\ UNCHANGED <<done, closes, jhist, phist>>
    /\ UNCHANGED <<wire, offset, isCloser, lateReads, ctxErr, cancelledAt>>
    /\ UNCHANGED <<sliceVars, clientVars, provs>>

\* JSONIter.Next up to the decode: the done check and the cancellation check.
JSONIterNextBegin ==
    /\ provs = "ndjson"
    /\ err = Nil
    /\ jpc = "idle"
    /\ Len(jhist) < MaxCalls
    /\ IF done
       THEN /\ Return([val |-> ZeroRecord, ok |-> FALSE, err |-> Nil])
            /\ UNCHANGED <<done, closes>>
       ELSE IF ctxErr # Nil
       THEN /\ close
            /\ Return([val |-> ZeroRecord, ok |-> TRUE, err |-> ctxErr])
       ELSE /\ jpc' = "decode"
            /\ UNCHANGED <<done, closes, jhist, phist>>
    /\ UNCHANGED <<wire, offset, isCloser, lateReads, ctxErr, cancelledAt>>
    /\ UNCHANGED <<sliceVars, clientVars, provs>>

\* Mutant of JSONIterNextDecode: io.EOF is not told apart from other errors.
JSONIterNextDecode_EOFIsError ==
    /\ provs = "ndjson"
    /\ err = Nil
    /\ jpc = "decode"
    /\ lateReads' = IF closes > 0 THEN lateReads + 1 ELSE lateReads
    /\ LET r == Decode(wire, offset)
       IN  /\ offset' = r.offset
           /\ IF r.err # Nil
              THEN /\ close
                   /\ Return([val |-> r.val, ok |-> TRUE, err |-> WrapErr(r.err)])
              ELSE /\ Return([val |-> r.val, ok |-> TRUE, err |-> Nil])
                   /\ UNCHANGED <<done, closes>>
    /\ UNCHANGED <<wire, isCloser, ctxErr, cancelledAt>>
    /\ UNCHANGED <<sliceVars, clientVars, provs>>

\* Mutant of JSONIterNextDecode: a cancellation that arrives during the decode
\* interrupts it, and the call returns the cancellation error.
JSONIterNextDecode_Interruptible ==
    /\ provs = "ndjson"
    /\ err = Nil
    /\ jpc = "decode"
    /\ lateReads' = IF closes > 0 THEN lateReads + 1 ELSE lateReads
    /\ LET r == Decode(wire, offset)
       IN  IF ctxErr # Nil
           THEN /\ offset' = offset
                /\ close
                /\ Return([val |-> ZeroRecord, ok |-> TRUE, err |-> ctxErr])
           ELSE /\ offset' = r.offset
                /\ IF r.err = EOF
                   THEN /\ close
                        /\ Return([val |-> r.val, ok |-> FALSE, err |-> Nil])
                   ELSE IF r.err # Nil
                   THEN /\ close
                        /\ Return([val |-> r.val, ok |-> TRUE, err |-> WrapErr(r.err)])
                   ELSE /\ Return([val |-> r.val, ok |-> TRUE, err |-> Nil])
                        /\ UNCHANGED <<done, closes>>
    /\ UNCHANGED <<wire, isCloser, ctxErr, cancelledAt>>
    /\ UNCHANGED <<sliceVars, clientVars, provs>>

\* JSONIter.Next from the decode on.
JSONIterNextDecode ==
    /\ provs = "ndjson"
    /\ err = Nil
    /\ jpc = "decode"
    /\ lateReads' = IF closes > 0 THEN lateReads + 1 ELSE lateReads
    /\ LET r == Decode(wire, offset)
       IN  /\ offset' = r.offset
           /\ IF r.err = EOF
              THEN /\ close
                   /\ Return([val |-> r.val, ok |-> FALSE, err |-> Nil])
              ELSE IF r.err # Nil
              THEN /\ close
                   /\ Return([val |-> r.val, ok |-> TRUE, err |-> WrapErr(r.err)])
              ELSE /\ Return([val |-> r.val, ok |-> TRUE, err |-> Nil])
                   /\ UNCHANGED <<done, closes>>
    /\ UNCHANGED <<wire, isCloser, ctxErr, cancelledAt>>
    /\ UNCHANGED <<sliceVars, clientVars, provs>>

\* The caller cancels the context the iterator was built with.
Cancel ==
    /\ provs = "ndjson"
    /\ ctxErr = Nil
    /\ ctxErr' = Canceled
    /\ cancelledAt' = <<jpc, Len(jhist)>>
    /\ UNCHANGED <<wire, offset, isCloser, closes, lateReads, done, jpc, jhist, phist>>
    /\ UNCHANGED <<sliceVars, clientVars, provs>>

\* ------------------------------------------------ iter/json.go: SliceIter
\*
\* SliceIter.Next takes no lock (the mutex m is declared and never used), so
\* the calls of several goroutines interleave between their accesses of s.i:
\* the bounds check, the indexing and the increment. s.i is then read and
\* written in a data race, and a goroutine may index or increment with the
\* value its bounds check loaded (kept in a register) or with the value in
\* memory.

Goroutines == 1..NumGoroutines

\* The values of s.i a goroutine may be working with after its bounds check.
Loaded(g) == {reg[g], i}

\* The return of a SliceIter.Next() call by goroutine g.
SliceReturn(g, r) ==
    /\ shist' = Append(shist, r)
    /\ spc' = [spc EXCEPT ![g] = "idle"]

\* Mutant of SliceIterNextCheck: the bounds check is s.i > len(s.Slice).
SliceIterNextCheck_OffByOne(g) ==
    /\ provs = "slice"
    /\ err = Nil
    /\ ~panicked
    /\ spc[g] = "idle"
    /\ scalls < MaxCalls
    /\ scalls' = scalls + 1
    /\ reg' = [reg EXCEPT ![g] = i]
    /\ IF i > Len(Slice)
       THEN SliceReturn(g, [val |-> NilResp, ok |-> FALSE, err |-> Nil, idx |-> -1])
       ELSE /\ spc' = [spc EXCEPT ![g] = "index"]
            /\ UNCHANGED shist
    /\ UNCHANGED <<Slice, i, sval, panicked>>
    /\ UNCHANGED <<iterVars, clientVars, provs>>

\* SliceIter.Next: if s.i >= len(s.Slice) { return val, false, nil }
SliceIterNextCheck(g) ==
    /\ provs = "slice"
    /\ err = Nil
    /\ ~panicked
    /\ spc[g] = "idle"
    /\ scalls < MaxCalls
    /\ scalls' = scalls + 1
    /\ reg' = [reg EXCEPT ![g] = i]
    /\ IF i >= Len(Slice)
       THEN SliceReturn(g, [val |-> NilResp, ok |-> FALSE, err |-> Nil, idx |-> -1])
       ELSE /\ spc' = [spc EXCEPT ![g] = "index"]
            /\ UNCHANGED shist
    /\ UNCHANGED <<Slice, i, sval, panicked>>
    /\ UNCHANGED <<iterVars, clientVars, provs>>

\* SliceIter.Next: val = s.Slice[s.i]
SliceIterNextIndex(g) ==
    /\ provs = "slice"
    /\ ~panicked
    /\ spc[g] = "index"
    /\ \E at \in Loaded(g) :
          IF at >= Len(Slice)
          THEN /\ panicked' = TRUE
               /\ UNCHANGED <<spc, sval>>
          ELSE /\ sval' = [sval EXCEPT ![g] = [val |-> Slice[at + 1], idx |-> at]]
               /\ spc' = [spc EXCEPT ![g] = "incr"]
               /\ UNCHANGED panicked
    /\ UNCHANGED <<Slice, i, reg, scalls, shist>>
    /\ UNCHANGED <<iterVars, clientVars, provs>>

\* SliceIter.Next: s.i++; return val, true, nil
SliceIterNextIncr(g) ==
    /\ provs = "slice"
    /\ ~panicked
    /\ spc[g] = "incr"
    /\ \E from \in Loaded(g) : i' = from + 1
    /\ SliceReturn(g, [val |-> sval[g].val, ok |-> TRUE, err |-> Nil, idx |-> sval[g].idx])
    /\ UNCHANGED <<Slice, reg, sval, scalls, panicked>>
    /\ UNCHANGED <<iterVars, clientVars, provs>>

\* No SliceIter.Next() call is in progress.
AllIdle == \A g \in Goroutines : spc[g] = "idle"

\* FromReaderJSON over reader w, which is a closer or not.
FromReaderJSON(w, closer) ==
    /\ wire = w
    /\ isCloser = closer
    /\ offset = 0
    /\ closes = 0
    /\ lateReads = 0
    /\ ctxErr = Nil
    /\ cancelledAt = <<>>
    /\ done = FALSE
    /\ jpc = "idle"
    /\ jhist = <<>>
    /\ phist = <<>>

\* FromSlice(s), not yet pulled by any goroutine.
FromSlice(s) ==
    /\ Slice = s
    /\ i = 0
    /\ spc = [g \in 1..NumGoroutines |-> "idle"]
    /\ reg = [g \in 1..NumGoroutines |-> 0]
    /\ sval = [g \in 1..NumGoroutines |-> [val |-> NilResp, idx |-> -1]]
    /\ scalls = 0
    /\ shist = <<>>
    /\ panicked = FALSE

\* No response: the call never got one from httpClient.Do.
NoResponse == [status |-> 0, ctype |-> "", decodeErr |-> Nil, results |-> <<>>]

\* No client call is modelled: the iterator was built directly.
NoCall(kind) ==
    /\ c = [identity |-> Nil, peerID |-> "", accepts |-> "", afterSignCallback |-> Nil]
    /\ call = "none"
    /\ resp = NoResponse
    /\ provs = kind
    /\ err = Nil
    /\ pbRet = [ttl |-> 0, err |-> Nil]
    /\ trace = <<>>
    /\ sent = <<>>
    /\ measured = <<>>

\* NewReadProvidersResponseIter over any reader.
InitIter ==
    /\ \E w \in SeqsUpTo(Tokens, MaxLen), closer \in BOOLEAN : FromReaderJSON(w, closer)
    /\ FromSlice(<<>>)
    /\ NoCall("ndjson")

NextIter ==
    \/ JSONIterNextBegin
    \/ JSONIterNextDecode
    \/ Cancel

SpecIter == InitIter /\ [][NextIter]_vars

\* The provider records a slice is made of.
RecordOf(doc) == Dispatch([val |-> UnmarshalEnvelope(doc), ok |-> TRUE, err |-> Nil]).val
Elems == {RecordOf("bs1"), RecordOf("unk")}

\* FromSlice over any slice.
InitSlice ==
    /\ \E s \in SeqsUpTo(Elems, MaxLen) : FromSlice(s)
    /\ FromReaderJSON(<<>>, FALSE)
    /\ NoCall("slice")

\* Goroutines call Next() whenever they like.
NextSlice ==
    \E g \in Goroutines :
        \/ SliceIterNextCheck(g)
        \/ SliceIterNextIndex(g)
        \/ SliceIterNextIncr(g)

SpecSlice == InitSlice /\ [][NextSlice]_vars

\* A call begins only when no other call is in progress.
NextSliceSeq ==
    \E g \in Goroutines :
        \/ AllIdle /\ SliceIterNextCheck(g)
        \/ SliceIterNextIndex(g)
        \/ SliceIterNextIncr(g)

SpecSliceSeq == InitSlice /\ [][NextSliceSeq]_vars

\* ------------------------------------------------------- client: the client

mediaTypeJSON == "application/json"
mediaTypeNDJSON == "application/x-ndjson"
\* strings.Join([]string{mediaTypeNDJSON, mediaTypeJSON}, ",")
AcceptsDefault == "application/x-ndjson,application/json"

\* http.StatusOK and http.StatusNotFound.
StatusOK == 200
StatusNotFound == 404

\* Mutant of StatusIsOK: every 2xx status passes.
StatusIsOK_Any2xx(status) == status \in 200..299

\* resp.StatusCode != http.StatusOK, negated: the status both calls go on
\* with.
StatusIsOK(status) == status = StatusOK

\* The private keys and peer ids of the model; the peer id "p1" is the one
\* derived from the public key of "k1".
Keys == {"k1", "k2"}
PeerIDs == {"", "p1"}
MatchesPublicKey(id, key) == id = "p1" /\ key = "k1"

\* New(baseURL, opts...): o says which options were given, WithIdentity
\* (identity), WithProviderInfo (peerID) and WithStreamResultsRequired.
New(o) ==
    LET client == [identity |-> o.identity,
                   peerID |-> o.peerID,
                   accepts |-> IF o.streamResultsRequired THEN mediaTypeJSON ELSE AcceptsDefault,
                   afterSignCallback |-> Nil]
    IN  IF client.identity # Nil /\ client.peerID # ""
           /\ ~MatchesPublicKey(client.peerID, client.identity)
        THEN [client |-> Nil, err |-> "identity does not match provider"]
        ELSE [client |-> client, err |-> Nil]

Options ==
    [identity : Keys \cup {Nil}, peerID : PeerIDs, streamResultsRequired : BOOLEAN]

\* One thing a call did: op on a collaborator, and how it came out.
Ev(op, out) == [op |-> op, out |-> out]

\* mime.ParseMediaType of a Content-Type header value.
ParseMediaType(v) ==
    CASE v = "application/json" -> [mediaType |-> "application/json", err |-> Nil]
      [] v = "application/json; charset=utf-8" -> [mediaType |-> "application/json", err |-> Nil]
      [] v = "application/x-ndjson" -> [mediaType |-> "application/x-ndjson", err |-> Nil]
      [] v = "text/html" -> [mediaType |-> "text/html", err |-> Nil]
      [] OTHER -> [mediaType |-> "", err |-> "mime: no media type"]

ContentTypes ==
    {"application/json", "application/json; charset=utf-8", "application/x-ndjson",
     "text/html", ""}

RECURSIVE DecodeProviders(_)
\* (*jsontypes.ReadProvidersResponse).UnmarshalJSON on the array of a batch
\* document: the records up to the first one that does not decode.
DecodeProviders(docs) ==
    IF docs = <<>> THEN [err |-> Nil, Providers |-> <<>>]
    ELSE LET d == Dispatch([val |-> UnmarshalEnvelope(Head(docs)), ok |-> TRUE, err |-> Nil])
         IN  IF d.err # Nil THEN [err |-> d.err, Providers |-> <<>>]
             ELSE LET rest == DecodeProviders(Tail(docs))
                  IN  [err |-> rest.err, Providers |-> <<d.val>> \o rest.Providers]

\* json.NewDecoder(resp.Body).Decode(parsedResp) of a batch body, whose
\* "Providers" array holds the JSON texts of body: a body that is not JSON
\* decodes to nothing.
DecodeBatch(body) ==
    IF \E k \in 1..Len(body) : body[k] = Garbage
    THEN [err |-> SyntaxError, Providers |-> <<>>]
    ELSE DecodeProviders(body)

\* httpError(statusCode, body): reads the body for the error's message.
httpError(status) == [trace |-> <<Ev("Body.Read", Nil)>>, err |-> <<"HTTPError", status>>]

\* Mutant of Measure: the length is set whatever provs is.
Measure_AlwaysLength(kind, slice, doErr, status) ==
    [err |-> doErr, statusCode |-> status, length |-> <<Len(slice)>>]

\* measurement.record(ctx), as the deferred function of FindProviders calls
\* it: the length is set when provs is a *SliceIter.
Measure(kind, slice, doErr, status) ==
    [err |-> doErr, statusCode |-> status,
     length |-> IF kind = "slice" THEN <<Len(slice)>> ELSE <<>>]

\* What a FindProviders call returns and does: in gives what the call meets,
\* the failure of http.NewRequestWithContext (reqErr), that of httpClient.Do
\* (doErr), and the response's status, Content-Type and body.
FindProvidersCall(in) ==
    LET get == [method |-> "GET", accept |-> <<>>, body |-> <<>>]
        Do == <<Ev("Do", "GET")>>
        Close == <<Ev("Body.Close", Nil)>>
        out(kind, slice, e, did, reqs, status) ==
            [provs |-> kind, Slice |-> slice, err |-> e,
             trace |-> did \o <<Ev("record", Nil)>>, sent |-> reqs,
             measured |-> <<Measure(kind, slice, IF reqs = <<>> THEN Nil ELSE in.doErr, status)>>]
    IN  IF in.reqErr # Nil
        THEN out("nil", <<>>, in.reqErr, <<>>, <<>>, 0)
        ELSE IF in.doErr # Nil
        THEN out("nil", <<>>, in.doErr, Do, <<get>>, 0)
        ELSE IF in.status = StatusNotFound
        THEN out("nil", <<>>, Nil, Do \o Close, <<get>>, in.status)
        ELSE IF ~StatusIsOK(in.status)
        THEN LET e == httpError(in.status)
             IN  out("nil", <<>>, e.err, Do \o Close \o e.trace, <<get>>, in.status)
        ELSE LET mt == ParseMediaType(in.ctype)
             IN  IF mt.err # Nil
                 THEN out("nil", <<>>, <<"parsing Content-Type", mt.err>>, Do \o Close,
                          <<get>>, in.status)
                 ELSE IF mt.mediaType = mediaTypeJSON
                 THEN LET parsedResp == DecodeBatch(in.body)
                      IN  out("slice", parsedResp.Providers, parsedResp.err,
                              Do \o <<Ev("Body.Read", Nil)>> \o Close, <<get>>, in.status)
                 ELSE IF mt.mediaType = mediaTypeNDJSON
                 THEN out("ndjson", <<>>, Nil, Do, <<get>>, in.status)
                 ELSE out("nil", <<>>, "unknown content type", Do \o Close, <<get>>,
                          in.status)

\* Close calls in a trace, and reads that follow a Close.
Closes(t) == Cardinality({k \in 1..Len(t) : t[k].op = "Body.Close"})
LateReads(t) ==
    Cardinality({k \in 1..Len(t) :
        t[k].op = "Body.Read" /\ \E j \in 1..(k - 1) : t[j].op = "Body.Close"})

Statuses == {200, 204, 404, 500}

\* What a FindProviders call may meet. The body matters on the paths that
\* read it (a 200 with a JSON or NDJSON Content-Type).
FindInputs ==
    LET base == [reqErr |-> Nil, doErr |-> Nil, status |-> 0, ctype |-> "", body |-> <<>>]
    IN  {[base EXCEPT !.reqErr = "invalid URL"], [base EXCEPT !.doErr = "dial failed"]}
        \cup {[base EXCEPT !.status = st, !.ctype = ct] :
                st \in Statuses, ct \in ContentTypes}
        \cup {[base EXCEPT !.status = StatusOK, !.ctype = ct, !.body = b] :
                ct \in {"application/json", "application/x-ndjson"},
                b \in SeqsUpTo(Tokens, MaxBody)}

\* client.FindProviders, from its call to its return, deferred functions
\* included.
FindProviders ==
    /\ call = "none"
    /\ \E in \in FindInputs :
          LET r == FindProvidersCall(in)
          IN  /\ call' = "FindProviders"
              /\ resp' = IF in.reqErr # Nil \/ in.doErr # Nil
                         THEN NoResponse
                         ELSE [NoResponse EXCEPT !.status = in.status, !.ctype = in.ctype]
              /\ provs' = r.provs
              /\ err' = r.err
              /\ trace' = r.trace
              /\ sent' = r.sent
              /\ measured' = r.measured
              \* the response body, and the JSONIter over it on the NDJSON path
              /\ wire' = in.body
              /\ isCloser' = TRUE
              /\ offset' = IF r.provs = "slice" THEN Len(in.body) ELSE 0
              /\ closes' = Closes(r.trace)
              /\ lateReads' = LateReads(r.trace)
              /\ Slice' = r.Slice
    /\ UNCHANGED <<ctxErr, cancelledAt, done, jpc, jhist, phist>>
    /\ UNCHANGED <<i, spc, reg, sval, scalls, shist, panicked>>
    /\ UNCHANGED <<c, pbRet>>

\* A Next() call on the nil iterator FindProviders returned with a nil error:
\* a method call on a nil interface value panics.
NilIterNext ==
    /\ provs = "nil"
    /\ err = Nil
    /\ call = "FindProviders"
    /\ ~panicked
    /\ panicked' = TRUE
    /\ UNCHANGED <<Slice, i, spc, reg, sval, scalls, shist>>
    /\ UNCHANGED <<iterVars, clientVars, provs>>

\* The results a provide response may hold.
ProvideResults ==
    {[kind |-> "bitswap", AdvisoryTTL |-> <<>>],
     [kind |-> "bitswap", AdvisoryTTL |-> <<24>>],
     [kind |-> "unknown", AdvisoryTTL |-> <<>>]}

\* Mutant of provideSignedBitswapRecord: only an empty result list is refused.
provideSignedBitswapRecord_AtLeastOne(bswp, in) ==
    LET post == [method |-> "POST", accept |-> <<>>, body |-> <<bswp>>]
        Do == <<Ev("Do", "POST")>>
        Close == <<Ev("Body.Close", Nil)>>
        Read == <<Ev("Body.Read", Nil)>>
        out(ttl, e, did, reqs) == [ttl |-> ttl, err |-> e, trace |-> did, sent |-> reqs]
    IN  IF in.marshalErr # Nil THEN out(0, in.marshalErr, <<>>, <<>>)
        ELSE IF in.reqErr # Nil THEN out(0, in.reqErr, <<>>, <<>>)
        ELSE IF in.doErr # Nil
        THEN out(0, <<"making HTTP req to provide a signed record", in.doErr>>, Do, <<post>>)
        ELSE IF ~StatusIsOK(in.status)
        THEN LET e == httpError(in.status)
             IN  out(0, e.err, Do \o e.trace \o Close, <<post>>)
        ELSE IF in.decodeErr # Nil
        THEN out(0, in.decodeErr, Do \o Read \o Close, <<post>>)
        ELSE IF Len(in.results) < 1
        THEN out(0, <<"expected 1 result but got", Len(in.results)>>, Do \o Read \o Close,
                 <<post>>)
        ELSE LET v == in.results[1]
             IN  IF v.kind # "bitswap"
                 THEN out(0, "expected AdvisoryTTL field", Do \o Read \o Close, <<post>>)
                 ELSE IF v.AdvisoryTTL # <<>>
                 THEN out(v.AdvisoryTTL[1], Nil, Do \o Read \o Close, <<post>>)
                 ELSE out(0, Nil, Do \o Read \o Close, <<post>>)

\* client.provideSignedBitswapRecord(ctx, bswp): in gives what it meets, the
\* failures of drjson.MarshalJSONBytes (marshalErr), http.NewRequestWithContext
\* (reqErr) and httpClient.Do (doErr), the response's status, and what its
\* body decodes to (decodeErr, results).
provideSignedBitswapRecord(bswp, in) ==
    LET post == [method |-> "POST", accept |-> <<>>, body |-> <<bswp>>]
        Do == <<Ev("Do", "POST")>>
        Close == <<Ev("Body.Close", Nil)>>
        Read == <<Ev("Body.Read", Nil)>>
        out(ttl, e, did, reqs) == [ttl |-> ttl, err |-> e, trace |-> did, sent |-> reqs]
    IN  IF in.marshalErr # Nil THEN out(0, in.marshalErr, <<>>, <<>>)
        ELSE IF in.reqErr # Nil THEN out(0, in.reqErr, <<>>, <<>>)
        ELSE IF in.doErr # Nil
        THEN out(0, <<"making HTTP req to provide a signed record", in.doErr>>, Do, <<post>>)
        ELSE IF ~StatusIsOK(in.status)
        THEN LET e == httpError(in.status)
             IN  out(0, e.err, Do \o e.trace \o Close, <<post>>)
        ELSE IF in.decodeErr # Nil
        THEN out(0, in.decodeErr, Do \o Read \o Close, <<post>>)
        ELSE IF Len(in.results) # 1
        THEN out(0, <<"expected 1 result but got", Len(in.results)>>, Do \o Read \o Close,
                 <<post>>)
        ELSE LET v == in.results[1]
             IN  IF v.kind # "bitswap"
                 THEN out(0, "expected AdvisoryTTL field", Do \o Read \o Close, <<post>>)
                 ELSE IF v.AdvisoryTTL # <<>>
                 THEN out(v.AdvisoryTTL[1], Nil, Do \o Read \o Close, <<post>>)
                 ELSE out(0, Nil, Do \o Read \o Close, <<post>>)

\* The record ProvideBitswap builds, once signed and shown to the hook.
SignedRecord(cl) ==
    [Protocol |-> "transport-bitswap",
     Schema |-> SchemaBitswap,
     ID |-> cl.peerID,
     Signature |-> IF cl.afterSignCallback # Nil THEN "mangled" ELSE <<"sig", cl.identity>>]

\* The test hook's call, when one is set.
Hook(cl) == IF cl.afterSignCallback # Nil THEN <<Ev("afterSignCallback", Nil)>> ELSE <<>>

\* Mutant of ProvideBitswapCall: the peer id is not checked.
ProvideBitswapCall_NoPeerIDCheck(cl, in) ==
    LET out(ttl, e, did, reqs) == [ttl |-> ttl, err |-> e, trace |-> did, sent |-> reqs]
    IN  IF cl.identity = Nil
        THEN out(0, "cannot provide Bitswap records without an identity", <<>>, <<>>)
        ELSE LET signed == <<Ev("Sign", in.signErr)>>
             IN  IF in.signErr # Nil
                 THEN out(0, in.signErr, signed, <<>>)
                 ELSE LET r == provideSignedBitswapRecord(SignedRecord(cl), in)
                      IN  out(IF r.err # Nil THEN 0 ELSE r.ttl, r.err,
                              signed \o Hook(cl) \o r.trace, r.sent)

\* Mutant of ProvideBitswapCall: the error of Sign is dropped.
ProvideBitswapCall_IgnoresSignErr(cl, in) ==
    LET out(ttl, e, did, reqs) == [ttl |-> ttl, err |-> e, trace |-> did, sent |-> reqs]
    IN  IF cl.identity = Nil
        THEN out(0, "cannot provide Bitswap records without an identity", <<>>, <<>>)
        ELSE IF cl.peerID = ""
        THEN out(0, "cannot provide Bitswap records without a peer ID", <<>>, <<>>)
        ELSE LET signed == <<Ev("Sign", in.signErr)>>
                 r == provideSignedBitswapRecord(SignedRecord(cl), in)
             IN  out(IF r.err # Nil THEN 0 ELSE r.ttl, r.err,
                     signed \o Hook(cl) \o r.trace, r.sent)

\* What a ProvideBitswap call of client cl returns and does; in.signErr is
\* the outcome of req.Sign(c.peerID, c.identity).
ProvideBitswapCall(cl, in) ==
    LET out(ttl, e, did, reqs) == [ttl |-> ttl, err |-> e, trace |-> did, sent |-> reqs]
    IN  IF cl.identity = Nil
        THEN out(0, "cannot provide Bitswap records without an identity", <<>>, <<>>)
        ELSE IF cl.peerID = ""
        THEN out(0, "cannot provide Bitswap records without a peer ID", <<>>, <<>>)
        ELSE LET signed == <<Ev("Sign", in.signErr)>>
             IN  IF in.signErr # Nil
                 THEN out(0, in.signErr, signed, <<>>)
                 ELSE LET r == provideSignedBitswapRecord(SignedRecord(cl), in)
                      IN  out(IF r.err # Nil THEN 0 ELSE r.ttl, r.err,
                              signed \o Hook(cl) \o r.trace, r.sent)

\* What a ProvideBitswap call may meet.
ProvideInputs ==
    LET base == [signErr |-> Nil, marshalErr |-> Nil, reqErr |-> Nil, doErr |-> Nil,
                 status |-> StatusOK, decodeErr |-> Nil, results |-> <<>>]
    IN  {[base EXCEPT !.signErr = "sign failed"],
         [base EXCEPT !.marshalErr = "marshal failed"],
         [base EXCEPT !.reqErr = "invalid URL"],
         [base EXCEPT !.doErr = "dial failed"],
         [base EXCEPT !.decodeErr = SyntaxError]}
        \cup {[base EXCEPT !.status = st, !.results = rs] :
                st \in Statuses, rs \in SeqsUpTo(ProvideResults, MaxResults)}

\* client.ProvideBitswap, from its call to its return.
ProvideBitswap ==
    /\ call = "none"
    /\ \E in \in ProvideInputs :
          LET r == ProvideBitswapCall(c, in)
          IN  /\ call' = "ProvideBitswap"
              /\ resp' = IF r.sent = <<>> \/ in.doErr # Nil
                         THEN NoResponse
                         ELSE [status |-> in.status, ctype |-> mediaTypeJSON,
                               decodeErr |-> in.decodeErr, results |-> in.results]
              /\ pbRet' = [ttl |-> r.ttl, err |-> r.err]
              /\ trace' = r.trace
              /\ sent' = r.sent
              /\ closes' = Closes(r.trace)
              /\ lateReads' = LateReads(r.trace)
              /\ isCloser' = TRUE
    /\ UNCHANGED <<wire, offset, ctxErr, cancelledAt, done, jpc, jhist, phist>>
    /\ UNCHANGED <<sliceVars, c, err, measured, provs>>

\* A client New returned without error; a test of the package may then set
\* its afterSignCallback.
InitClient ==
    /\ \E o \in Options, hook \in {Nil, "mangle"} :
          /\ New(o).err = Nil
          /\ c = [New(o).client EXCEPT !.afterSignCallback = hook]
    /\ call = "none"
    /\ resp = NoResponse
    /\ provs = "none"
    /\ err = Nil
    /\ pbRet = [ttl |-> 0, err |-> Nil]
    /\ trace = <<>>
    /\ sent = <<>>
    /\ measured = <<>>
    /\ FromReaderJSON(<<>>, FALSE)
    /\ FromSlice(<<>>)

\* One call on the client; the consumer then pulls the iterator it got, one
\* call at a time, and may cancel the context it passed.
NextClient ==
    \/ FindProviders
    \/ ProvideBitswap
    \/ NilIterNext
    \/ JSONIterNextBegin
    \/ JSONIterNextDecode
    \/ Cancel
    \/ \E g \in Goroutines :
          \/ AllIdle /\ SliceIterNextCheck(g)
          \/ SliceIterNextIndex(g)
          \/ SliceIterNextIncr(g)

SpecClient == InitClient /\ [][NextClient]_vars

\* ------------------------------------------------------------ claims: iter

\* A JSONIter.Next() result that ends the iteration: exhaustion or an error.
TerminalResult(r) == r.ok = FALSE \/ r.err # Nil

\* The result every call after a terminal one must give.
Exhausted == [val |-> ZeroRecord, ok |-> FALSE, err |-> Nil]

TerminalSeen == \E k \in 1..Len(jhist) : TerminalResult(jhist[k])

\* C1: over any sequence of Next() calls by one consumer, Close is called on
\* the underlying stream at most once, and it has been called exactly once
\* from the moment a call returned a terminal outcome (end of stream, decode
\* error, observed cancellation); a reader that cannot be closed is never
\* closed.
C1_ClosedExactlyOnce ==
    /\ closes <= 1
    /\ closes = IF isCloser /\ TerminalSeen THEN 1 ELSE 0

\* C1 witness: a closable stream ended, two more calls were made, and Close
\* was still called once.
C1_Witness ==
    /\ isCloser
    /\ closes = 1
    /\ \E k \in 1..Len(jhist) : TerminalResult(jhist[k]) /\ Len(jhist) >= k + 2

\* C2: once a Next() call returned exhaustion or an error, every later call
\* returns (zero, false, nil), and done, once true, is never false again.
C2_TerminalIsSticky ==
    /\ [](\A k \in 1..Len(jhist) : \A m \in 1..Len(jhist) :
            (k < m /\ TerminalResult(jhist[k])) => jhist[m] = Exhausted)
    /\ [][done => done']_vars

\* C2 witness: a call returned an error and a later call was made.
C2_Witness ==
    \E k \in 1..Len(jhist) : jhist[k].err # Nil /\ Len(jhist) > k /\ done

\* C3: when the context is already cancelled as a Next() call begins on an
\* iterator that is not yet terminal, that call returns the cancellation
\* error without decoding anything and closes the stream.
C3_CancelPreemptsDecode ==
    [][(jpc = "idle" /\ ~done /\ ctxErr # Nil) =>
         /\ jpc' = "idle"
         /\ offset' = offset
         /\ Len(jhist') = Len(jhist) + 1
         /\ jhist'[Len(jhist')].err = ctxErr
         /\ jhist'[Len(jhist')].err # Nil
         /\ done'
         /\ closes' = IF isCloser THEN closes + 1 ELSE closes]_vars

\* C3 witness: a call returned the cancellation error with unread values
\* left in the stream, and the stream is closed.
C3_Witness ==
    /\ jhist # <<>>
    /\ jhist[Len(jhist)].err = Canceled
    /\ Len(wire) - offset >= 2
    /\ isCloser /\ closes = 1

WellFormed(w) == \A k \in 1..Len(w) : w[k] \in Docs

\* C6: on a well-formed stream of k values with no cancellation, the first k
\* calls return the values in wire order with hasMore = true and no error,
\* call k+1 returns exhaustion and no error, and the stream is closed when
\* call k+1 has returned and not before.
C6_WellFormedStream ==
    (WellFormed(wire) /\ ctxErr = Nil) =>
        /\ \A k \in 1..Len(jhist) :
              IF k <= Len(wire)
              THEN jhist[k] = [val |-> UnmarshalEnvelope(wire[k]), ok |-> TRUE, err |-> Nil]
              ELSE jhist[k] = Exhausted
        /\ closes = IF isCloser /\ Len(jhist) > Len(wire) THEN 1 ELSE 0

\* C6 witness: a well-formed stream of at least two values was drained and
\* closed by the call after the last value.
C6_Witness ==
    /\ WellFormed(wire) /\ ctxErr = Nil
    /\ Len(wire) >= 2
    /\ Len(jhist) = Len(wire) + 1
    /\ isCloser /\ closes = 1

\* C7: for every envelope pulled from the inner iterator, the dispatching
\* decoder returns the bitswap variant exactly when the discriminator is
\* "bitswap/transport" and the payload decodes; for any other discriminator
\* it returns the unknown variant with the same discriminator and the same
\* raw bytes, hasMore = true and no error.
C7_SchemaDispatch ==
    \A k \in 1..Len(jhist) :
        (jhist[k].ok /\ jhist[k].err = Nil) =>
            LET v == jhist[k].val
                known == v.Schema = "bitswap/transport"
                u == UnmarshalBitswap(v.Bytes)
            IN  /\ phist[k].val.kind = "bitswap" <=> (known /\ u.err = Nil)
                /\ (known /\ u.err = Nil) =>
                      phist[k] = [val |-> [kind |-> "bitswap", prov |-> u.prov],
                                  ok |-> TRUE, err |-> Nil]
                /\ ~known =>
                      phist[k] = [val |-> [kind |-> "unknown", Schema |-> v.Schema,
                                           Bytes |-> wire[k]],
                                  ok |-> TRUE, err |-> Nil]

\* C7 witness: one stream gave a bitswap record and a record of an unknown
\* schema.
C7_Witness ==
    /\ \E k \in 1..Len(phist) : phist[k].val.kind = "bitswap"
    /\ \E k \in 1..Len(phist) : phist[k].val.kind = "unknown" /\ phist[k].val.Schema # ""

\* ----------------------------------------------------------- claims: slice

\* C4: SliceIter is safe for concurrent Next() calls: whatever the
\* interleaving, no call panics, the cursor never exceeds len(Slice), no
\* element is returned by two calls, and once a call has reported
\* exhaustion with no call in progress every element has been returned.
C4_ConcurrentNextIsSafe ==
    /\ ~panicked
    /\ i <= Len(Slice)
    /\ \A a \in 1..Len(shist) : \A b \in 1..Len(shist) :
          (a # b /\ shist[a].ok /\ shist[b].ok) => shist[a].idx # shist[b].idx
    /\ (AllIdle /\ \E a \in 1..Len(shist) : ~shist[a].ok) =>
          \A k \in 0..(Len(Slice) - 1) : \E a \in 1..Len(shist) : shist[a].idx = k

\* C5: sequential Next() calls on a SliceIter over s return s[0], s[1], ...,
\* s[len(s)-1] in order with hasMore = true and a nil error, then
\* (zero, false, nil) on every later call; no call returns an error or
\* panics.
C5_SliceInOrder ==
    /\ ~panicked
    /\ \A k \in 1..Len(shist) :
          IF k <= Len(Slice)
          THEN shist[k] = [val |-> Slice[k], ok |-> TRUE, err |-> Nil, idx |-> k - 1]
          ELSE shist[k] = [val |-> NilResp, ok |-> FALSE, err |-> Nil, idx |-> -1]

\* C5 witness: a slice of two or more elements was drained and two more
\* calls were made.
C5_Witness ==
    /\ Len(Slice) >= 2
    /\ Len(shist) >= Len(Slice) + 2
    /\ AllIdle

\* ---------------------------------------------------------- claims: client

\* C8: FindProviders on a 404 response returns a nil error and a usable
\* iterator that is exhausted at once: its first Next() returns
\* (zero, false, nil), and pulling it does not panic.
C8_NotFoundGivesEmptyIterator ==
    (call = "FindProviders" /\ resp.status = 404) =>
        /\ err = Nil
        /\ provs \in {"slice", "ndjson"}
        /\ ~panicked
        /\ shist # <<>> => shist[1] = [val |-> NilResp, ok |-> FALSE, err |-> Nil, idx |-> -1]
        /\ phist # <<>> => phist[1] = [val |-> NilResp, ok |-> FALSE, err |-> Nil]

\* Errors ProvideBitswap returns for a client that cannot sign.
ConfigErrors ==
    {"cannot provide Bitswap records without an identity",
     "cannot provide Bitswap records without a peer ID"}

\* C9: ProvideBitswap on a client with no identity, or with an empty peer
\* id, returns a configuration error, signs nothing and hands no request to
\* the HTTP client.
C9_NoIdentityFailsFast ==
    (call = "ProvideBitswap" /\ (c.identity = Nil \/ c.peerID = "")) =>
        /\ pbRet.err \in ConfigErrors
        /\ pbRet.ttl = 0
        /\ sent = <<>>
        /\ \A k \in 1..Len(trace) : trace[k].op \notin {"Sign", "Do"}

\* C9 witness: ProvideBitswap returned on a client that has an identity and
\* no peer id.
C9_Witness ==
    /\ call = "ProvideBitswap"
    /\ c.identity # Nil
    /\ c.peerID = ""
    /\ pbRet.err = "cannot provide Bitswap records without a peer ID"

\* C10: in every ProvideBitswap call the HTTP POST comes only after Sign has
\* returned success, and the record posted is the signed one; when Sign
\* fails the call returns Sign's error and no request is issued.
C10_PostOnlyAfterSigning ==
    call = "ProvideBitswap" =>
        /\ \A k \in 1..Len(trace) :
              trace[k].op = "Do" =>
                  /\ trace[k].out = "POST"
                  /\ \E j \in 1..(k - 1) : trace[j] = Ev("Sign", Nil)
        /\ \A k \in 1..Len(sent) :
              /\ sent[k].method = "POST"
              /\ \E j \in 1..Len(trace) : trace[j] = Ev("Sign", Nil)
        /\ \A j \in 1..Len(trace) :
              (trace[j].op = "Sign" /\ trace[j].out # Nil) =>
                  /\ pbRet.err = trace[j].out
                  /\ sent = <<>>
                  /\ \A k \in 1..Len(trace) : trace[k].op # "Do"

\* C10 witness: a call signed its record and then posted it.
C10_Witness ==
    /\ call = "ProvideBitswap"
    /\ Len(sent) = 1
    /\ \E k \in 1..Len(trace) :
          /\ trace[k].op = "Do"
          /\ \E j \in 1..(k - 1) : trace[j] = Ev("Sign", Nil)

\* The advisory TTL of a result, zero when it has none.
TTLOf(v) == IF v.AdvisoryTTL = <<>> THEN 0 ELSE v.AdvisoryTTL[1]

\* What C11 says of a provide response that was received and decoded.
ResultUnwrapped ==
    LET rs == resp.results
        one == Len(rs) = 1 /\ rs[1].kind = "bitswap"
    IN  /\ pbRet.err = Nil <=> one
        /\ one => pbRet.ttl = TTLOf(rs[1])
        /\ Len(rs) # 1 => <<"expected 1 result but got", Len(rs)>> = pbRet.err
        /\ (Len(rs) = 1 /\ rs[1].kind # "bitswap") => pbRet.err = "expected AdvisoryTTL field"

\* C11 as stated: for a provide response with a successful (2xx) status,
\* ProvideBitswap returns a nil error exactly when the response holds one
\* result and that result is the bitswap variant, and then returns its
\* advisory TTL, zero when absent; any other count is a cardinality error
\* and one result of another variant is a variant-mismatch error.
C11_Original ==
    (call = "ProvideBitswap" /\ resp.status \in 200..299 /\ resp.decodeErr = Nil) =>
        ResultUnwrapped

\* C11 amended: the same for a provide response with status 200, the one
\* status ProvideBitswap decodes.
C11_ResultUnwrappedOn200 ==
    (call = "ProvideBitswap" /\ resp.status = 200 /\ resp.decodeErr = Nil) =>
        ResultUnwrapped

\* C11 witness: a 200 response with one bitswap result carrying a TTL was
\* unwrapped to that TTL.
C11_Witness ==
    /\ call = "ProvideBitswap"
    /\ resp.status = 200
    /\ Len(resp.results) = 1
    /\ resp.results[1] = [kind |-> "bitswap", AdvisoryTTL |-> <<24>>]
    /\ pbRet = [ttl |-> 24, err |-> Nil]

\* The error both calls build from a status they refuse.
StatusError(status) == <<"HTTPError", status>>

\* FindProviders went on to the Content-Type of its response: what it
\* returned is what the Content-Type decides.
InspectedContentType ==
    LET mt == ParseMediaType(resp.ctype)
    IN  IF mt.err # Nil THEN <<"parsing Content-Type", mt.err>> = err /\ provs = "nil"
        ELSE IF mt.mediaType = "application/json" THEN provs = "slice"
        ELSE IF mt.mediaType = "application/x-ndjson" THEN provs = "ndjson" /\ err = Nil
        ELSE err = "unknown content type" /\ provs = "nil"

\* The statuses in ok are taken as success by both calls, and every other
\* status (404 aside, for FindProviders) is answered with the status error.
StatusClassified(ok) ==
    /\ (call = "FindProviders" /\ resp.status # 0) =>
          /\ resp.status \in ok => InspectedContentType
          /\ (resp.status \notin ok /\ resp.status # 404) =>
                StatusError(resp.status) = err /\ provs = "nil"
    /\ (call = "ProvideBitswap" /\ resp.status # 0) =>
          /\ resp.status \in ok =>
                /\ StatusError(resp.status) # pbRet.err
                /\ \E k \in 1..Len(trace) : trace[k].op = "Body.Read"
                /\ resp.decodeErr # Nil => pbRet.err = resp.decodeErr
                /\ resp.decodeErr = Nil => ResultUnwrapped
          /\ resp.status \notin ok => StatusError(resp.status) = pbRet.err

\* C12 as stated: FindProviders takes every 2xx status as success and goes
\* on to the Content-Type, and returns an error for every non-2xx status
\* other than 404; ProvideBitswap decodes the result for every 2xx status
\* and returns the status error for every non-2xx status.
C12_Original == StatusClassified(200..299)

\* C12 amended: the same with 200 as the only success status: every status
\* other than 200 (and, for FindProviders, 404) is answered with the status
\* error, the other 2xx statuses included.
C12_Only200IsSuccess == StatusClassified({200})

\* C12 witness: FindProviders answered a 204 response with the status error.
C12_Witness ==
    /\ call = "FindProviders"
    /\ resp.status = 204
    /\ StatusError(204) = err
    /\ provs = "nil"


\* A readProvidersResponseIter.Next() result that ends the iteration for the
\* consumer: exhaustion or an error.
ProviderTerminalSeen == \E k \in 1..Len(phist) : TerminalResult(phist[k])

\* C13: once FindProviders has returned with a response, the body has been
\* closed exactly once on every path but the NDJSON one; on the NDJSON path
\* it is open at return and has been closed once, by the iterator, exactly
\* when the returned iterator has given a terminal result.
C13_BodyClosedAtReturnOrByIterator ==
    (call = "FindProviders" /\ resp.status # 0) =>
        IF provs = "ndjson"
        THEN closes = (IF ProviderTerminalSeen THEN 1 ELSE 0)
        ELSE closes = 1

\* C14: every GET request FindProviders hands to httpClient.Do carries the
\* client's configured accept value as its Accept header.
C14_AcceptHeaderSent ==
    call = "FindProviders" =>
        \A k \in 1..Len(sent) :
            sent[k].method = "GET" => sent[k].accept = <<c.accepts>>

\* The exit paths of FindProviders, told apart by what the call met and
\* what it returned.
ExitPath ==
    IF sent = <<>> THEN "request construction failure"
    ELSE IF resp.status = 0 THEN "transport error"
    ELSE IF resp.status = StatusNotFound THEN "not found"
    ELSE IF ~StatusIsOK(resp.status) THEN "error status"
    ELSE IF provs = "slice" THEN "batch"
    ELSE IF provs = "ndjson" THEN "stream"
    ELSE "bad content type"

\* C15: a FindProviders call records its measurement exactly once, as the
\* last thing it does, on every exit path, and the measurement carries a
\* length (that of the sequence) exactly when the result is a SliceIter.
C15_MeasuredOncePerCall ==
    call = "FindProviders" =>
        /\ Len(measured) = 1
        /\ Cardinality({k \in 1..Len(trace) : trace[k].op = "record"}) = 1
        /\ trace[Len(trace)].op = "record"
        /\ measured[1].length # <<>> <=> provs = "slice"
        /\ provs = "slice" => measured[1].length = <<Len(Slice)>>

\* C15 witness: a batch call that returned two records recorded one
\* measurement, with the length 2.
C15_Witness ==
    /\ call = "FindProviders"
    /\ ExitPath = "batch"
    /\ Len(Slice) = 2
    /\ measured = <<[err |-> Nil, statusCode |-> StatusOK, length |-> <<2>>]>>

\* C16: whenever a Next() call on the iterator FindProviders returned for an
\* NDJSON response has returned a non-nil error, the response body has been
\* closed.
C16_ErrorMeansBodyClosed ==
    (call = "FindProviders" /\ provs = "ndjson") =>
        \A k \in 1..Len(phist) : phist[k].err # Nil => closes >= 1

\* C17: in readProvidersResponseIter, a Next() call that returned the error
\* of a malformed payload of a known schema is terminal: every later Next()
\* returns (nil, false, nil).
C17_MalformedPayloadIsTerminal ==
    \A k \in 1..Len(phist) :
        (phist[k].err = UnmarshalBitswap("bsbad").err) =>
            \A j \in (k + 1)..Len(phist) :
                phist[j] = [val |-> NilResp, ok |-> FALSE, err |-> Nil]

\* What a Next() call that reaches its decode at position off must return:
\* the value there, exhaustion at the end of the stream, or the wrapped
\* decode error.
DecodeOutcome(w, off) ==
    IF off >= Len(w) THEN Exhausted
    ELSE IF w[off + 1] = Garbage
    THEN [val |-> ZeroRecord, ok |-> TRUE, err |-> WrapErr(SyntaxError)]
    ELSE [val |-> UnmarshalEnvelope(w[off + 1]), ok |-> TRUE, err |-> Nil]

\* C18: when the context is cancelled while a Next() call is past its
\* cancellation check (k calls had returned, all with values), that call
\* returns the outcome of its decode, and the call after it, if the
\* iterator is not terminal by then, returns the cancellation error and
\* closes the stream.
C18_InFlightDecodeCompletes ==
    \A k \in 0..Len(jhist) :
        cancelledAt = <<"decode", k>> =>
            /\ Len(jhist) > k => DecodeOutcome(wire, k) = jhist[k + 1]
            /\ (Len(jhist) > k + 1 /\ ~TerminalResult(jhist[k + 1])) =>
                  /\ jhist[k + 2] = [val |-> ZeroRecord, ok |-> TRUE, err |-> Canceled]
                  /\ done
                  /\ closes = IF isCloser THEN 1 ELSE 0

\* C18 witness: the context was cancelled during the first call's decode;
\* that call returned its value and the second call the cancellation error.
C18_Witness ==
    /\ cancelledAt = <<"decode", 0>>
    /\ Len(jhist) = 2
    /\ jhist[1] = [val |-> UnmarshalEnvelope("bs1"), ok |-> TRUE, err |-> Nil]
    /\ jhist[2].err = Canceled
    /\ closes = 1

\* C19: the client never reads a response body after closing it, in a
\* FindProviders or ProvideBitswap call or in the iterator it returned.
C19_NoReadAfterClose == lateReads = 0

\* C20: FindProviders never returns a non-nil iterator together with a
\* non-nil error.
C20_ErrorMeansNilIterator ==
    (call = "FindProviders" /\ err # Nil) => provs = "nil"

=============================================================================
